---- MODULE Spec2Model ----
(***************************************************************************)
(* Model of src/generate_syscalls.py: the generators that render the       *)
(* syscall registry into text, and main, which renders one target into an  *)
(* in-memory stream and writes the file only when its content changes.     *)
(*                                                                         *)
(* Text is a sequence of chunks, one chunk per f.write call.  Every write  *)
(* of the program ends in a newline, so a file is a sequence of chunks     *)
(* each carrying the line ending it is stored with.                        *)
(***************************************************************************)
EXTENDS Integers, Sequences, FiniteSets, TLC

VARIABLES registry, base, asm, file, pc, before, stream, after, wrote, prev, file0

vars == <<registry, base, asm, file, pc, before, stream, after, wrote, prev, file0>>

(***************************************************************************)
(* Bounds of the model.                                                    *)
(***************************************************************************)
MaxSyscalls == 2

MaxCode == 1

MaxAsmChunks == 2

(***************************************************************************)
(* Python values.  An optional value is <<>> (None) or <<v>>.              *)
(***************************************************************************)
None == <<>>

Some(v) == <<v>>

IsNone(x) == x = None

Val(x) == x[1]

\* Python truth value of an optional integer: None and 0 are both false.
Truthy(x) == ~IsNone(x) /\ Val(x) # 0

(***************************************************************************)
(* str.upper(), character by character.                                    *)
(***************************************************************************)
LowerChars == <<"a", "d", "e", "f", "i", "k", "l", "p", "r", "s", "t", "u", "w", "x">>

UpperChars == <<"A", "D", "E", "F", "I", "K", "L", "P", "R", "S", "T", "U", "W", "X">>

UpperChar(c) ==
    IF \E i \in DOMAIN LowerChars : LowerChars[i] = c
    THEN UpperChars[CHOOSE i \in DOMAIN LowerChars : LowerChars[i] = c]
    ELSE c

Upper(name) == [i \in DOMAIN name |-> UpperChar(name[i])]

(***************************************************************************)
(* The registry (module syscalls, an external collaborator).               *)
(***************************************************************************)
Archs == {"x86", "x64"}

ArgPositions == 1 .. 5

NamePool ==
    << <<"r", "e", "a", "d">>,
       <<"f", "u", "t", "e", "x">>,
       <<"p", "r", "e", "a", "d", "6", "4">>,
       <<"_", "l", "l", "s", "e", "e", "k">> >>

Codes == {None} \cup {Some(c) : c \in 0 .. MaxCode}

NoArgs == [p \in ArgPositions |-> None]

Syscall(name, x86, x64, kind, args) ==
    [name |-> name, x86 |-> x86, x64 |-> x64, kind |-> kind, args |-> args]

\* getattr(obj, arch)
GetArch(obj, arch) == IF arch = "x86" THEN obj.x86 ELSE obj.x64

\* syscalls.all(): every (name, obj) pair, in the registry's own order.
All(reg) == reg

\* syscalls.for_arch(arch): the pairs of all() that are defined on arch.
ForArch(reg, arch) == SelectSeq(All(reg), LAMBDA sc : ~IsNone(GetArch(sc, arch)))

(***************************************************************************)
(* Text chunks: the format string of one f.write and its arguments.        *)
(***************************************************************************)
Chunk(fmt, s, up, name, n) == [fmt |-> fmt, s |-> s, up |-> up, name |-> name, n |-> n]

Lit(fmt) == Chunk(fmt, "", <<>>, <<>>, 0)

(***************************************************************************)
(* arch_syscall_number and the stable sort of sorted(..., key=...).        *)
(***************************************************************************)
\* Variant: an undefined syscall sorts with key 0.
arch_syscall_number_zero(arch, syscall) ==
    IF IsNone(GetArch(syscall, arch)) THEN 0 ELSE Val(GetArch(syscall, arch))

arch_syscall_number(arch, syscall) ==
    IF IsNone(GetArch(syscall, arch)) THEN -1 ELSE Val(GetArch(syscall, arch))

\* Insert x behind every element whose key is <= its own: equal keys keep
\* their input order.
RECURSIVE InsertByKey(_, _, _)
InsertByKey(sorted, x, arch) ==
    IF sorted = <<>> THEN <<x>>
    ELSE IF arch_syscall_number(arch, sorted[Len(sorted)]) <= arch_syscall_number(arch, x)
         THEN Append(sorted, x)
         ELSE Append(InsertByKey(SubSeq(sorted, 1, Len(sorted) - 1), x, arch),
                     sorted[Len(sorted)])

RECURSIVE SortedByKey(_, _)
SortedByKey(seq, arch) ==
    IF seq = <<>> THEN <<>>
    ELSE InsertByKey(SortedByKey(SubSeq(seq, 1, Len(seq) - 1), arch), seq[Len(seq)], arch)

(***************************************************************************)
(* write_syscall_consts and write_syscall_consts_for_tests                 *)
(***************************************************************************)
\* Variant: "if syscall_number:", which takes code 0 for undefined.
IsDefinedTruthy(syscall_number) == Truthy(syscall_number)

\* "if syscall_number is not None"
IsDefined(syscall_number) == ~IsNone(syscall_number)

\* Variant: the sentinel is never decremented.
NextUndefinedStuck(undefined_syscall) == undefined_syscall

\* "undefined_syscall -= 1"
NextUndefined(undefined_syscall) == undefined_syscall - 1

\* The loop body from position i on, with the running sentinel.
RECURSIVE ConstsLoop(_, _, _, _, _)
ConstsLoop(order, arch, fmt, i, undefined_syscall) ==
    IF i > Len(order) THEN <<>>
    ELSE LET name == order[i].name
             syscall_number == GetArch(order[i], arch)
         IN  IF IsDefined(syscall_number)
             THEN <<Chunk(fmt, "", Upper(name), <<>>, Val(syscall_number))>>
                  \o ConstsLoop(order, arch, fmt, i + 1, undefined_syscall)
             ELSE <<Chunk(fmt, "", Upper(name), <<>>, undefined_syscall)>>
                  \o ConstsLoop(order, arch, fmt, i + 1, NextUndefined(undefined_syscall))

ConstFmt == "pub const %s : i32 = %d;\n"

TestConstFmt == "pub const RR_%s = %d,\n"

write_syscall_consts(reg, arch) ==
    ConstsLoop(SortedByKey(All(reg), arch), arch, ConstFmt, 1, -1) \o <<Lit("\n")>>

write_syscall_consts_for_tests(reg, arch) ==
    ConstsLoop(SortedByKey(All(reg), arch), arch, TestConstFmt, 1, -1) \o <<Lit("\n")>>

(***************************************************************************)
(* write_syscallname_arch                                                  *)
(***************************************************************************)
Specializer(arch) == IF arch = "x86" THEN "x86_arch" ELSE "x64_arch"

ArmFmt == "    %(specializer)s::%(syscall_upper)s => \"%(syscall)s\".into(),\n"

write_case(specializer, name) == Chunk(ArmFmt, specializer, Upper(name), name, 0)

\* Variant: an arm for every syscall of syscalls.all().
NameArmsAll(reg, arch) ==
    LET syscalls == All(reg)
    IN  [i \in 1 .. Len(syscalls) |-> write_case(Specializer(arch), syscalls[i].name)]

NameArms(reg, arch) ==
    LET syscalls == ForArch(reg, arch)
    IN  [i \in 1 .. Len(syscalls) |-> write_case(Specializer(arch), syscalls[i].name)]

write_syscallname_arch(reg, arch) ==
    << Lit("use std::fmt::Write;\n"),
       Chunk("use crate:: %s;\n", Specializer(arch), <<>>, <<>>, 0),
       Lit("\n"),
       Lit("pub fn syscallname_arch(syscall : i32) -> String {\n"),
       Lit("  match syscall {\n") >>
    \o NameArms(reg, arch)
    \o << Lit("    _ => {\n"),
          Lit("      let mut s = String::new();\n"),
          Lit("      write!(s, \"<unknown-syscall-{}>\", syscall).unwrap();\n"),
          Lit("      s\n"),
          Lit("    }\n"),
          Lit("  }\n"),
          Lit("}\n"),
          Lit("\n") >>

(***************************************************************************)
(* write_syscall_record_cases                                              *)
(***************************************************************************)
RegFmt == "    syscall_state.reg_parameter<%s>(%d);\n"

CaseFmt == "  case Arch::%s:\n"

StopFmt == "    return PREVENT_SWITCH;\n"

\* isinstance(arg_descriptor, str): the descriptors of the model are None or a string.
IsStr(arg_descriptor) == ~IsNone(arg_descriptor)

write_recorder_for_arg(syscall, arg) ==
    LET arg_descriptor == syscall.args[arg]
    IN  IF IsStr(arg_descriptor)
        THEN <<Chunk(RegFmt, Val(arg_descriptor), <<>>, <<>>, arg)>>
        ELSE <<>>

RECURSIVE RecordersFrom(_, _)
RecordersFrom(syscall, arg) ==
    IF arg > 5 THEN <<>>
    ELSE write_recorder_for_arg(syscall, arg) \o RecordersFrom(syscall, arg + 1)

\* Variant: every kind of syscall gets a case.
IsRegularAny(obj) == TRUE

\* isinstance(obj, syscalls.RegularSyscall)
IsRegular(obj) == obj.kind = "RegularSyscall"

RecordCase(obj) ==
    IF IsRegular(obj)
    THEN <<Chunk(CaseFmt, "", <<>>, obj.name, 0)>>
         \o RecordersFrom(obj, 1)
         \o <<Lit(StopFmt)>>
    ELSE <<>>

RECURSIVE RecordCasesFrom(_, _)
RecordCasesFrom(syscalls, i) ==
    IF i > Len(syscalls) THEN <<>>
    ELSE RecordCase(syscalls[i]) \o RecordCasesFrom(syscalls, i + 1)

write_syscall_record_cases(reg) == RecordCasesFrom(All(reg), 1)

(***************************************************************************)
(* write_syscall_helper_functions: three templates per syscall.            *)
(***************************************************************************)
HasFmt == "has_${syscall}_syscall"

IsFmt == "is_${syscall}_syscall"

NumberFmt == "syscall_number_for_${syscall}"

write_helpers(syscall) ==
    << Chunk(HasFmt, "", <<>>, syscall, 0),
       Chunk(IsFmt, "", <<>>, syscall, 0),
       Chunk(NumberFmt, "", <<>>, syscall, 0) >>

RECURSIVE HelpersFrom(_, _)
HelpersFrom(syscalls, i) ==
    IF i > Len(syscalls) THEN <<>>
    ELSE write_helpers(syscalls[i].name) \o HelpersFrom(syscalls, i + 1)

write_syscall_helper_functions(reg) == HelpersFrom(All(reg), 1)

(***************************************************************************)
(* write_check_syscall_numbers                                             *)
(***************************************************************************)
AssertFmt == "static_assert(X86Arch::%s == SYS_%s, \"Incorrect syscall number for %s\");\n"

\* "if not obj.x86: continue"
SkipsCheck(obj) == ~Truthy(obj.x86)

RECURSIVE ChecksFrom(_, _)
ChecksFrom(syscalls, i) ==
    IF i > Len(syscalls) THEN <<>>
    ELSE (IF SkipsCheck(syscalls[i])
          THEN <<>>
          ELSE <<Chunk(AssertFmt, "", <<>>, syscalls[i].name, 0)>>)
         \o ChecksFrom(syscalls, i + 1)

write_check_syscall_numbers(reg) == ChecksFrom(All(reg), 1)

(***************************************************************************)
(* assembly_templates.generate: an opaque collaborator.  Its outcome is    *)
(* fixed for a given build: it writes asm.n chunks and then either returns *)
(* or raises.                                                              *)
(***************************************************************************)
\* A run that returns has rendered at least one chunk; a run that raises may
\* have written nothing yet.
AsmOutcomes ==
    {o \in [n : 0 .. MaxAsmChunks, raises : BOOLEAN] : o.n >= 1 \/ o.raises}

AsmText(n) == [i \in 1 .. n |-> Chunk("<assembly_templates>", "", <<>>, <<>>, i)]

(***************************************************************************)
(* generators_for                                                          *)
(***************************************************************************)
GeneratorKeys ==
    { "AssemblyTemplates", "CheckSyscallNumbers",
      "syscall_consts_x86_generated", "syscall_consts_x64_generated",
      "syscall_consts_for_tests_x86_generated", "syscall_consts_for_tests_x64_generated",
      "syscall_name_arch_x86_generated", "syscall_name_arch_x64_generated",
      "SyscallRecordCase", "SyscallHelperFunctions" }

\* What generators_for[b](stream) leaves in the stream when it returns.
generators_for(b, reg, a) ==
    CASE b = "AssemblyTemplates" -> AsmText(a.n)
      [] b = "CheckSyscallNumbers" -> write_check_syscall_numbers(reg)
      [] b = "syscall_consts_x86_generated" -> write_syscall_consts(reg, "x86")
      [] b = "syscall_consts_x64_generated" -> write_syscall_consts(reg, "x64")
      [] b = "syscall_consts_for_tests_x86_generated" -> write_syscall_consts_for_tests(reg, "x86")
      [] b = "syscall_consts_for_tests_x64_generated" -> write_syscall_consts_for_tests(reg, "x64")
      [] b = "syscall_name_arch_x86_generated" -> write_syscallname_arch(reg, "x86")
      [] b = "syscall_name_arch_x64_generated" -> write_syscallname_arch(reg, "x64")
      [] b = "SyscallRecordCase" -> write_syscall_record_cases(reg)
      [] b = "SyscallHelperFunctions" -> write_syscall_helper_functions(reg)

\* The selected generator raises: only the collaborator can.
Raises(b, a) == b = "AssemblyTemplates" /\ a.raises

(***************************************************************************)
(* Files.  open(filename, 'r') reads with universal newlines: every line   *)
(* ending is read as "\n".  open(filename, 'w') stores "\n" as it is.      *)
(***************************************************************************)
Eols == {"\n", "\r\n"}

Absent == [exists |-> FALSE, content |-> <<>>]

StoredAs(text, eol) ==
    [exists |-> TRUE, content |-> [i \in DOMAIN text |-> [chunk |-> text[i], eol |-> eol]]]

\* f.write(after) on a file opened with 'w'
Stored(text) == StoredAs(text, "\n")

\* f.read() on a file opened with 'r'
ReadText(f) == [i \in DOMAIN f.content |-> f.content[i].chunk]

(***************************************************************************)
(* Inputs: the registry, the target and the file found at the path.        *)
(***************************************************************************)
Bases == GeneratorKeys \cup {"unknown_target"}

Kinds == {"RegularSyscall", "IrregularSyscall"}

ArgChoices == [ArgPositions -> {None, Some("int")}]

\* Registries of up to MaxSyscalls syscalls, the i-th one named NamePool[i].
RegistriesOver(defs) ==
    UNION { { r \in [1 .. n -> defs] : \A i \in 1 .. n : r[i].name = NamePool[i] }
            : n \in 0 .. MaxSyscalls }

CodeDefs ==
    { Syscall(NamePool[i], x86, x64, "RegularSyscall", NoArgs) :
        i \in 1 .. MaxSyscalls, x86 \in Codes, x64 \in Codes }

ArgDefs ==
    { Syscall(NamePool[i], Some(i), None, "RegularSyscall", args) :
        i \in 1 .. MaxSyscalls, args \in ArgChoices }
    \cup { Syscall(NamePool[i], Some(i), None, "IrregularSyscall", NoArgs) :
        i \in 1 .. MaxSyscalls }

CodeRegistries == RegistriesOver(CodeDefs)

ArgRegistries == RegistriesOver(ArgDefs)

\* The registry of the scenario: read 3/0, write 4/1, futex undefined/202.
ScenarioRegistry ==
    << Syscall(<<"r", "e", "a", "d">>, Some(3), Some(0), "RegularSyscall",
               [NoArgs EXCEPT ![2] = Some("int"), ![4] = Some("struct timespec")]),
       Syscall(<<"w", "r", "i", "t", "e">>, Some(4), Some(1), "RegularSyscall", NoArgs),
       Syscall(<<"f", "u", "t", "e", "x">>, None, Some(202), "IrregularSyscall", NoArgs) >>

DefaultAsm == [n |-> 1, raises |-> FALSE]

OtherText == <<Lit("// stale\n")>>

\* The files main may find at the path, for a target that generates text.
FilesFor(text) ==
    {Absent, Stored(<<>>), Stored(OtherText)} \cup {StoredAs(text, eol) : eol \in Eols}

TextOrEmpty(b, reg, a) == IF b \in GeneratorKeys THEN generators_for(b, reg, a) ELSE <<>>

NoRun == [outcome |-> "none", after |-> <<>>]

StartOfRun ==
    /\ pc = "start"
    /\ before = <<>>
    /\ stream = <<>>
    /\ after = <<>>
    /\ wrote = FALSE
    /\ file0 = file

\* Registries that vary the codes, for every target, the file absent.
InitCodes ==
    /\ registry \in CodeRegistries
    /\ base \in Bases
    /\ asm \in (IF base = "AssemblyTemplates" THEN AsmOutcomes ELSE {DefaultAsm})
    /\ file = Absent

\* Registries that vary kinds and argument descriptors, for the record cases.
InitArgs ==
    /\ registry \in ArgRegistries
    /\ base = "SyscallRecordCase"
    /\ asm = DefaultAsm
    /\ file = Absent

\* Every file state, for every target, over an empty and a populated registry.
InitFiles ==
    /\ registry \in {<<>>, ScenarioRegistry}
    /\ base \in Bases
    /\ asm \in (IF base = "AssemblyTemplates" THEN AsmOutcomes ELSE {DefaultAsm})
    /\ file \in FilesFor(TextOrEmpty(base, registry, asm))

Init ==
    /\ (InitCodes \/ InitArgs \/ InitFiles)
    /\ prev = NoRun
    /\ StartOfRun

(***************************************************************************)
(* main, step by step                                                      *)
(***************************************************************************)
\* Lines 160-164: read the file, or take "" when there is none.
ReadBefore ==
    /\ pc = "start"
    /\ before' = IF file.exists THEN ReadText(file) ELSE <<>>
    /\ pc' = "read"
    /\ UNCHANGED <<registry, base, asm, file, stream, after, wrote, prev, file0>>

\* Lines 166-169: the selected generator returns; the stream's value is taken.
Generate ==
    /\ pc = "read"
    /\ base \in GeneratorKeys
    /\ ~Raises(base, asm)
    /\ stream' = generators_for(base, registry, asm)
    /\ after' = stream'
    /\ pc' = "generated"
    /\ UNCHANGED <<registry, base, asm, file, before, wrote, prev, file0>>

\* Variant: the generator renders straight into the file, so what it wrote
\* before raising is left there.
GenerateRaisesIntoFile ==
    /\ pc = "read"
    /\ \/ /\ base \notin GeneratorKeys
          /\ stream' = <<>>
       \/ /\ base \in GeneratorKeys
          /\ Raises(base, asm)
          /\ stream' = generators_for(base, registry, asm)
    /\ file' = Stored(stream')
    /\ pc' = "failed"
    /\ UNCHANGED <<registry, base, asm, before, after, wrote, prev, file0>>

\* Line 167: KeyError for an unknown base name, or the generator raises
\* part-way with what it wrote so far in the stream.  The exception ends main.
GenerateRaises ==
    /\ pc = "read"
    /\ \/ /\ base \notin GeneratorKeys
          /\ stream' = <<>>
       \/ /\ base \in GeneratorKeys
          /\ Raises(base, asm)
          /\ stream' = generators_for(base, registry, asm)
    /\ pc' = "failed"
    /\ UNCHANGED <<registry, base, asm, file, before, after, wrote, prev, file0>>

\* Variant: the file is rewritten on every run.
WriteAlways ==
    /\ pc = "generated"
    /\ file' = Stored(after)
    /\ wrote' = TRUE
    /\ pc' = "done"
    /\ UNCHANGED <<registry, base, asm, before, stream, after, prev, file0>>

\* Lines 171-173: write only when the text differs from what was read.
WriteIfChanged ==
    /\ pc = "generated"
    /\ IF before # after
       THEN file' = Stored(after) /\ wrote' = TRUE
       ELSE UNCHANGED <<file, wrote>>
    /\ pc' = "done"
    /\ UNCHANGED <<registry, base, asm, before, stream, after, prev, file0>>

\* main is invoked again on the same path with the registry unchanged.
Rerun ==
    /\ pc \in {"done", "failed"}
    /\ prev' = [outcome |-> pc, after |-> after]
    /\ pc' = "start"
    /\ before' = <<>>
    /\ stream' = <<>>
    /\ after' = <<>>
    /\ wrote' = FALSE
    /\ file0' = file
    /\ UNCHANGED <<registry, base, asm, file>>

Next == ReadBefore \/ Generate \/ GenerateRaises \/ WriteIfChanged \/ Rerun

Spec == Init /\ [][Next]_vars

(***************************************************************************)
(* Reading the generated text back.                                        *)
(***************************************************************************)
Range(seq) == {seq[i] : i \in DOMAIN seq}

WithFmt(text, fmt) == SelectSeq(text, LAMBDA c : c.fmt = fmt)

\* The constants of one architecture, as write_syscall_consts emits them.
ConstChunks(reg, arch) == WithFmt(write_syscall_consts(reg, arch), ConstFmt)

\* The value of the constant with the given (uppercased) identifier.
ConstantNamed(consts, up) == (CHOOSE c \in Range(consts) : c.up = up).n

\* X86Arch::${syscall} and X64Arch::${syscall} in the helper templates: the
\* constant generated for that syscall on the architecture.
ArchConstant(consts, syscall) == ConstantNamed(consts, Upper(syscall))

\* has_${syscall}_syscall(arch), over the constants of the two architectures
has_syscall(X86Arch, X64Arch, syscall, arch) ==
    IF arch = "x86"
    THEN ArchConstant(X86Arch, syscall) >= 0
    ELSE ArchConstant(X64Arch, syscall) >= 0

\* Variant: the template without its "syscallno >= 0" guard.
is_syscall_unguarded(X86Arch, X64Arch, syscall, syscallno, arch) ==
    IF arch = "x86"
    THEN syscallno = ArchConstant(X86Arch, syscall)
    ELSE syscallno = ArchConstant(X64Arch, syscall)

\* is_${syscall}_syscall(syscallno, arch)
is_syscall(X86Arch, X64Arch, syscall, syscallno, arch) ==
    IF arch = "x86"
    THEN syscallno >= 0 /\ syscallno = ArchConstant(X86Arch, syscall)
    ELSE syscallno >= 0 /\ syscallno = ArchConstant(X64Arch, syscall)

\* The generated syscallname_arch(syscall): the first arm whose constant
\* equals the input gives the literal, the "_" arm the fallback string.
Known(name) == [known |-> TRUE, name |-> name, code |-> 0]

Unknown(code) == [known |-> FALSE, name |-> <<>>, code |-> code]

syscallname_arch(text, consts, syscall) ==
    LET arms == WithFmt(text, ArmFmt)
        hits == {i \in DOMAIN arms : ConstantNamed(consts, arms[i].up) = syscall}
    IN  IF hits = {}
        THEN Unknown(syscall)
        ELSE Known(arms[CHOOSE i \in hits : \A j \in hits : i <= j].name)

(***************************************************************************)
(* Vocabulary of the properties.                                           *)
(***************************************************************************)
Defined(sc, arch) == GetArch(sc, arch) # None

CodeOn(sc, arch) == GetArch(sc, arch)[1]

\* The place in syscalls.all() of the syscall a constant stands for.
PosOfConst(reg, up) == CHOOSE i \in DOMAIN reg : Upper(reg[i].name) = up

SortKey(sc, arch) == IF Defined(sc, arch) THEN CodeOn(sc, arch) ELSE -1

IsLower(name) == \A i \in DOMAIN name : name[i] \notin Range(UpperChars)

ConstsTarget(arch) ==
    IF arch = "x86" THEN "syscall_consts_x86_generated" ELSE "syscall_consts_x64_generated"

NameTarget(arch) ==
    IF arch = "x86" THEN "syscall_name_arch_x86_generated" ELSE "syscall_name_arch_x64_generated"

\* The inputs the generated functions are tried on.
ProbeCodes ==
    (-(MaxSyscalls + 2) .. (MaxCode + 1))
    \cup UNION { {CodeOn(registry[i], a) : i \in {j \in DOMAIN registry : Defined(registry[j], a)}}
                 : a \in Archs }

\* The generator of the target has returned and its text is in "after".
GeneratedFor(b) == pc = "generated" /\ base = b

(***************************************************************************)
(* C1: on either architecture write_syscall_consts emits exactly one       *)
(* constant per syscall of syscalls.all(), named by the uppercased name,   *)
(* and a syscall with a defined code (0 included) gets that code.          *)
(***************************************************************************)
ConstsCorrect(reg, arch, text) ==
    LET cs == WithFmt(text, ConstFmt)
    IN  /\ Len(cs) = Len(reg)
        /\ Len(text) = Len(cs) + 1
        /\ \A i \in DOMAIN reg :
              /\ Cardinality({k \in DOMAIN cs : cs[k].up = Upper(reg[i].name)}) = 1
              /\ Defined(reg[i], arch) =>
                    ConstantNamed(cs, Upper(reg[i].name)) = CodeOn(reg[i], arch)

C1_ConstantsEqualCodes ==
    \A arch \in Archs :
       GeneratedFor(ConstsTarget(arch)) => ConstsCorrect(registry, arch, after)

C1_Witness ==
    /\ GeneratedFor("syscall_consts_x86_generated")
    /\ \E i \in DOMAIN registry : registry[i].x86 = Some(0)
    /\ \E j \in DOMAIN registry : registry[j].x86 = Some(1)
    /\ \E k \in DOMAIN after : after[k].fmt = ConstFmt /\ after[k].n = 0

(***************************************************************************)
(* C2: the values given to the syscalls undefined on an architecture are   *)
(* -1, -2, -3, ... in emission order (the k-th undefined one gets -k), so  *)
(* they are negative and distinct, and no other constant has that value.   *)
(***************************************************************************)
SentinelsCorrect(reg, arch, text) ==
    LET cs == WithFmt(text, ConstFmt)
        undef == {k \in DOMAIN cs : ~Defined(reg[PosOfConst(reg, cs[k].up)], arch)}
    IN  \A k \in undef :
           /\ cs[k].n = -Cardinality({j \in undef : j <= k})
           /\ cs[k].n < 0
           /\ \A j \in DOMAIN cs : j # k => cs[j].n # cs[k].n

C2_SentinelsSequential ==
    \A arch \in Archs :
       GeneratedFor(ConstsTarget(arch)) => SentinelsCorrect(registry, arch, after)

C2_Witness ==
    /\ GeneratedFor("syscall_consts_x64_generated")
    /\ Cardinality({i \in DOMAIN registry : registry[i].x64 = None}) >= 2
    /\ \E k \in DOMAIN after : after[k].fmt = ConstFmt /\ after[k].n = -2

(***************************************************************************)
(* C3: over the generated constants, is(s, c, A) and has(s, A) hold for a  *)
(* syscall s with defined code c on A, is(s, code, A) is false for every   *)
(* negative code, and has(s, A) is false when s is undefined on A.         *)
(***************************************************************************)
HelpersCorrect(reg, text) ==
    LET X86Arch == ConstChunks(reg, "x86")
        X64Arch == ConstChunks(reg, "x64")
    IN  \A i \in DOMAIN reg : \A arch \in Archs :
           LET s == reg[i].name
           IN  /\ \E h \in Range(text) : h.fmt = IsFmt /\ h.name = s
               /\ \E h \in Range(text) : h.fmt = HasFmt /\ h.name = s
               /\ Defined(reg[i], arch) =>
                     /\ is_syscall(X86Arch, X64Arch, s, CodeOn(reg[i], arch), arch)
                     /\ has_syscall(X86Arch, X64Arch, s, arch)
               /\ ~Defined(reg[i], arch) => ~has_syscall(X86Arch, X64Arch, s, arch)
               /\ \A code \in ProbeCodes :
                     code < 0 => ~is_syscall(X86Arch, X64Arch, s, code, arch)

NamesCorrect(reg, arch, text) ==
    LET consts == ConstChunks(reg, arch)
    IN  \A n \in ProbeCodes :
           LET owners == {i \in DOMAIN reg : Defined(reg[i], arch) /\ CodeOn(reg[i], arch) = n}
               r == syscallname_arch(text, consts, n)
           IN  IF owners = {}
               THEN r = Unknown(n)
               ELSE /\ r.known
                    /\ \E i \in owners : r.name = reg[i].name
                    /\ IsLower(r.name)

C4_NameResolution ==
    \A arch \in Archs :
       GeneratedFor(NameTarget(arch)) => NamesCorrect(registry, arch, after)

C4_Witness ==
    /\ GeneratedFor("syscall_name_arch_x86_generated")
    /\ \E i \in DOMAIN registry :
          /\ registry[i].x86 = Some(1)
          /\ syscallname_arch(after, ConstChunks(registry, "x86"), 1) = Known(registry[i].name)
    /\ \E j \in DOMAIN registry : registry[j].x86 = None
    /\ syscallname_arch(after, ConstChunks(registry, "x86"), -1) = Unknown(-1)

(***************************************************************************)
(* C5: write_check_syscall_numbers emits exactly one static assertion for  *)
(* every syscall with a defined code on x86 (code 0 included) and none for *)
(* a syscall undefined on x86, whatever its x64 code.                      *)
(***************************************************************************)
AssertionsOf(text, name) ==
    Cardinality({k \in DOMAIN text : text[k].fmt = AssertFmt /\ text[k].name = name})

C5_OneAssertionPerX86Syscall ==
    GeneratedFor("CheckSyscallNumbers") =>
        \A i \in DOMAIN registry :
           AssertionsOf(after, registry[i].name) = IF Defined(registry[i], "x86") THEN 1 ELSE 0

(***************************************************************************)
(* C6: write_syscall_record_cases emits a case for exactly the Regular     *)
(* syscalls, in registry order; each case holds one recorder registration  *)
(* per argument position 1..5 carrying a type tag, in increasing position, *)
(* and ends with exactly one "return PREVENT_SWITCH", also with no tags.   *)
(***************************************************************************)
Tagged(sc) == {p \in ArgPositions : sc.args[p] # None}

RecordCasesCorrect(reg, text) ==
    LET regular == SelectSeq(reg, LAMBDA sc : sc.kind = "RegularSyscall")
        starts == {k \in DOMAIN text : text[k].fmt = CaseFmt}
        cases == WithFmt(text, CaseFmt)
        \* the last chunk of the case that starts at k
        EndOf(k) == IF \E m \in starts : m > k
                    THEN (CHOOSE m \in starts : m > k /\ \A q \in starts : q > k => m <= q) - 1
                    ELSE Len(text)
        \* the syscall of the case that starts at k
        Of(k) == regular[Cardinality({m \in starts : m <= k})]
    IN  /\ Len(cases) = Len(regular)
        /\ \A c \in DOMAIN cases : cases[c].name = regular[c].name
        /\ text # <<>> => 1 \in starts
        /\ \A k \in starts :
              /\ EndOf(k) > k
              /\ text[EndOf(k)].fmt = StopFmt
              /\ \A m \in (k + 1) .. (EndOf(k) - 1) :
                    /\ text[m].fmt = RegFmt
                    /\ text[m].n \in Tagged(Of(k))
                    /\ text[m].s = Of(k).args[text[m].n][1]
                    /\ m + 1 < EndOf(k) => text[m].n < text[m + 1].n
              /\ {text[m].n : m \in (k + 1) .. (EndOf(k) - 1)} = Tagged(Of(k))

C6_RecordCases ==
    GeneratedFor("SyscallRecordCase") => RecordCasesCorrect(registry, after)

C6_Witness ==
    /\ GeneratedFor("SyscallRecordCase")
    /\ \E i \in DOMAIN registry : registry[i].kind = "IrregularSyscall"
    /\ \E i \in DOMAIN registry :
          registry[i].kind = "RegularSyscall" /\ Tagged(registry[i]) = {}
    /\ \E i \in DOMAIN registry :
          registry[i].kind = "RegularSyscall" /\ Cardinality(Tagged(registry[i])) >= 2
    /\ Cardinality({k \in DOMAIN after : after[k].fmt = StopFmt}) = 2

(***************************************************************************)
(* C7: when main has succeeded and is run again with the registry          *)
(* unchanged, the second run generates the same text and writes nothing:   *)
(* the file is as the first run left it.                                   *)
(***************************************************************************)
C7_Idempotent ==
    prev.outcome = "done" =>
        /\ pc \in {"generated", "done"} => after = prev.after
        /\ ~wrote
        /\ file = file0

C7_Witness ==
    /\ prev.outcome = "done"
    /\ pc = "done"
    /\ after # <<>>
    /\ file = Stored(after)

(***************************************************************************)
(* C8: the file is written only after the selected generator has returned  *)
(* with its whole text in memory; when the base name is no key of          *)
(* generators_for or the generator raises, the run ends without a write    *)
(* and the file is as it was before the run.                               *)
(***************************************************************************)
C8_NoPartialArtifacts ==
    /\ pc # "done" => (file = file0 /\ ~wrote)
    /\ wrote =>
          /\ base \in GeneratorKeys
          /\ ~Raises(base, asm)
          /\ after = generators_for(base, registry, asm)
          /\ file = Stored(after)
    /\ (pc \notin {"start", "read"} /\ (base \notin GeneratorKeys \/ Raises(base, asm))) =>
          pc = "failed"

C8_Witness ==
    /\ pc = "failed"
    /\ Raises(base, asm)
    /\ stream # <<>>
    /\ file = Stored(OtherText)
    /\ file = file0

(***************************************************************************)
(* C9: after a successful run of main the file exists and its content is   *)
(* the generated text, whatever the file was before.                       *)
(***************************************************************************)
C9_FileHoldsGeneratedText ==
    pc = "done" => (file.exists /\ file = Stored(after))

(***************************************************************************)
(* C10: the constants are emitted in the stable order of the key "code on  *)
(* the architecture, -1 when undefined": keys never decrease, equal keys   *)
(* keep the order of syscalls.all(), and so every undefined syscall comes  *)
(* before every defined one.                                               *)
(***************************************************************************)
OrderCorrect(reg, arch, text) ==
    LET cs == WithFmt(text, ConstFmt)
        Pos(k) == PosOfConst(reg, cs[k].up)
        Key(k) == SortKey(reg[Pos(k)], arch)
    IN  \A k \in DOMAIN cs : \A m \in DOMAIN cs :
           k < m =>
              /\ Key(k) <= Key(m)
              /\ Key(k) = Key(m) => Pos(k) < Pos(m)
              /\ ~(Defined(reg[Pos(k)], arch) /\ ~Defined(reg[Pos(m)], arch))

C10_StableOrder ==
    \A arch \in Archs :
       GeneratedFor(ConstsTarget(arch)) => OrderCorrect(registry, arch, after)

C10_Witness ==
    /\ GeneratedFor("syscall_consts_x86_generated")
    /\ Len(registry) >= 2
    /\ registry[1].x86 = Some(1)
    /\ registry[2].x86 = None
    /\ after[1].up = Upper(registry[2].name)
    /\ after[2].up = Upper(registry[1].name)

====
